---- MODULE Spec2Model ----
(***************************************************************************)
(* Verification model of htmlDoc.py.                                       *)
(*                                                                         *)
(*  - spitTags (the tag-aware text splitter) is modelled statement by      *)
(*    statement: parser.feed and the offset conversion, one action per     *)
(*    iteration of the outer while loop, and the trailing-text check.      *)
(*    A Python IndexError is a transition to pc = "raised".                *)
(*  - HtmlDoc / Section are modelled with an explicit heap of attribute    *)
(*    lists, because the default parameter atr=[] is one list object       *)
(*    shared by every call that omits atr.                                 *)
(*                                                                         *)
(* Strings are sequences of one-character strings; offsets are 0-based as  *)
(* in the Python source, so text[a:b] is SubSeq(text, a + 1, b).           *)
(***************************************************************************)
EXTENDS Integers, Sequences, FiniteSets, TLC

VARIABLES
    text,           \* spitTags argument
    tags,           \* spitTags argument (whitelist)
    pc,             \* position in spitTags: "start", "loop", "done", "raised"
    rawPos,         \* parser.startInds: (line, column) pairs from getpos()
    startInds,      \* converted absolute offsets
    foundItem,
    foundType,
    iii,
    subTexts,
    subTypes,
    subStartInds,
    subEndInds,
    error,          \* "none" or the exception raised
    prevTok,        \* index of the token handled by the last loop iteration
    lists,          \* heap of attribute-list objects
    secs,           \* Section objects, in creation order
    bodyItems,      \* HtmlDoc.bodyItems
    headings        \* per section, the attributes of its last rendered heading

splitVars == <<text, tags, pc, rawPos, startInds, foundItem, foundType, iii,
               subTexts, subTypes, subStartInds, subEndInds, error, prevTok>>

docVars == <<lists, secs, bodyItems, headings>>

vars == <<text, tags, pc, rawPos, startInds, foundItem, foundType, iii,
          subTexts, subTypes, subStartInds, subEndInds, error, prevTok,
          lists, secs, bodyItems, headings>>

---------------------------------------------------------------------------
(* Bounds of the input space *)

MaxPieces == 5
MaxSections == 3

---------------------------------------------------------------------------
(* Tag names *)

B  == <<"b">>
BR == <<"b", "r">>

selfClosingTags ==
    { <<"a","r","e","a">>, <<"b","a","s","e">>, <<"b","r">>, <<"c","o","l">>,
      <<"e","m","b","e","d">>, <<"h","r">>, <<"i","m","g">>,
      <<"i","n","p","u","t">>, <<"l","i","n","k">>, <<"m","e","t","a">>,
      <<"p","a","r","a","m">>, <<"s","o","u","r","c","e">>,
      <<"t","r","a","c","k">>, <<"w","b","r">> }

TagNames == {B, BR}

(* The fragments an input text is assembled from. *)
Pieces ==
    { <<"x">>, <<"\n">>,
      <<"<", "b", ">">>, <<"<", "/", "b", ">">>,
      <<"<", "b", "r", ">">>, <<"<", "b", "r", "/", ">">> }

RECURSIVE TextsUpTo(_)
TextsUpTo(n) ==
    IF n = 0 THEN { <<>> }
    ELSE LET T == TextsUpTo(n - 1) IN T \cup { t \o p : t \in T, p \in Pieces }

---------------------------------------------------------------------------
(* html.parser.HTMLParser as driven by MyHTMLParser *)

Max(S) == CHOOSE m \in S : \A k \in S : k <= m
Min(S) == CHOOSE m \in S : \A k \in S : m <= k

(* str.find on 1-based indices: least k >= i with s[k] = c, 0 when absent *)
Find(s, c, i) ==
    LET hits == { k \in i..Len(s) : s[k] = c }
    IN  IF hits = {} THEN 0 ELSE Min(hits)

(* HTMLParser.getpos() when the parser stands at 0-based offset o:
   line number counted from 1, column counted from the last newline *)
getpos(rawdata, o) ==
    LET nl == { k \in 1..o : rawdata[k] = "\n" }
    IN  IF nl = {} THEN <<1, o>> ELSE <<1 + Cardinality(nl), o - Max(nl)>>

Tok(item, pos, type) == [item |-> item, pos |-> pos, type |-> type]

(* HTMLParser.goahead from 1-based index i: the handler calls made, in
   order, each with the position getpos() reports inside the handler.
   A tag that is not terminated by ">" is left in the buffer (feed without
   close), so nothing is reported for it. *)
RECURSIVE goahead(_, _)
goahead(rawdata, i) ==
    IF i > Len(rawdata) THEN <<>>
    ELSE IF rawdata[i] # "<" THEN
        LET f == Find(rawdata, "<", i)
            j == IF f = 0 THEN Len(rawdata) + 1 ELSE f
        IN  <<Tok(SubSeq(rawdata, i, j - 1), getpos(rawdata, i - 1), "data")>>
                \o goahead(rawdata, j)
    ELSE
        LET k == Find(rawdata, ">", i) IN
        IF k = 0 THEN <<>>
        ELSE IF rawdata[i + 1] = "/" THEN
            <<Tok(SubSeq(rawdata, i + 2, k - 1), getpos(rawdata, i - 1), "end")>>
                \o goahead(rawdata, k + 1)
        ELSE IF rawdata[k - 1] = "/" THEN
            \* handle_startendtag: handle_starttag then handle_endtag
            <<Tok(SubSeq(rawdata, i + 1, k - 2), getpos(rawdata, i - 1), "start"),
              Tok(SubSeq(rawdata, i + 1, k - 2), getpos(rawdata, i - 1), "end")>>
                \o goahead(rawdata, k + 1)
        ELSE
            <<Tok(SubSeq(rawdata, i + 1, k - 1), getpos(rawdata, i - 1), "start")>>
                \o goahead(rawdata, k + 1)

feed(rawdata) == goahead(rawdata, 1)

---------------------------------------------------------------------------
(* Line/column to absolute offset *)

(* text.split('\n') *)
RECURSIVE split(_)
split(s) ==
    LET f == Find(s, "\n", 1)
    IN  IF f = 0 THEN <<s>>
        ELSE <<SubSeq(s, 1, f - 1)>> \o split(SubSeq(s, f + 1, Len(s)))

(* sum([len(x) - 1 for x in lines[0 : n]]) *)
RECURSIVE sumLenMinus1(_, _)
sumLenMinus1(lines, n) ==
    IF n = 0 THEN 0 ELSE sumLenMinus1(lines, n - 1) + (Len(lines[n]) - 1)

(* the conversion with each passed newline counted once on top of len(x) - 1 *)
toOffsetOneNewline(lines, start) ==
    sumLenMinus1(lines, start[1] - 1) + (start[1] - 1) + start[2]

toOffset(lines, start) ==
    sumLenMinus1(lines, start[1] - 1) + 2 * (start[1] - 1) + start[2]

---------------------------------------------------------------------------
(* Attribute lists of HtmlDoc / Section *)

(* A default argument atr=[] is evaluated once, when the def statement runs:
   each function owns one list object for all its calls.  The heap starts
   with these objects. *)
AddSectionDefault    == 1    \* HtmlDoc.addSection, atr=[]
SectionInitDefault   == 2    \* Section.__init__, atr=[]
AddSubsectionDefault == 3    \* Section.addSubsection, atr=[]

DefaultLists == << <<>>, <<>>, <<>> >>

None == "None"

Titles == {"A", "B"}
Ids == {None, "k"}

(* What a caller passes as atr: nothing, or a new list of its own *)
NoAtr == "omitted"
AtrArgs == { NoAtr, <<>>, << <<"id", "own">> >> }

---------------------------------------------------------------------------
(* spitTags *)

(* Python list indexing is 0-based: token iii is element iii + 1. *)
At(list, ind) == list[ind + 1]

(* text[a : b] *)
Slice(s, a, b) == SubSeq(s, a + 1, b)

Last(list) == list[Len(list)]

SplitInit ==
    /\ text \in TextsUpTo(MaxPieces)
    /\ tags \in SUBSET TagNames
    /\ pc = "start"
    /\ rawPos = <<>>
    /\ startInds = <<>>
    /\ foundItem = <<>>
    /\ foundType = <<>>
    /\ iii = 0
    /\ subTexts = <<>>
    /\ subTypes = <<>>
    /\ subStartInds = <<>>
    /\ subEndInds = <<>>
    /\ error = "none"
    /\ prevTok = -1
    /\ lists = DefaultLists
    /\ secs = <<>>
    /\ bodyItems = <<>>
    /\ headings = <<>>

(* lines 348-365 *)
Feed ==
    /\ pc = "start"
    /\ LET toks  == feed(text)
           lines == split(text)
       IN  /\ rawPos' = [n \in 1..Len(toks) |-> toks[n].pos]
           /\ startInds' = [n \in 1..Len(toks) |-> toOffset(lines, toks[n].pos)]
           /\ foundItem' = [n \in 1..Len(toks) |-> toks[n].item]
           /\ foundType' = [n \in 1..Len(toks) |-> toks[n].type]
    /\ iii' = 0
    /\ pc' = "loop"
    /\ UNCHANGED docVars
    /\ UNCHANGED <<text, tags, subTexts, subTypes, subStartInds, subEndInds,
                   error, prevTok>>

(* line 367 *)
IsKeptStart(ind) ==
    At(foundType, ind) = "start" /\ At(foundItem, ind) \in tags

(* line 374 evaluates subEndInds[-1]; on an empty list that is an IndexError.
   It is reached when the test of line 368 is false. *)
GapCheckRaises(ind) ==
    /\ ~(Len(subEndInds) = 0 /\ At(startInds, ind) > 0)
    /\ Len(subEndInds) = 0

(* lines 368-379 with the leading text cut one character short *)
GapSegsShortLead(ind) ==
    LET s == At(startInds, ind) IN
    IF Len(subEndInds) = 0 /\ s > 0 THEN
        [texts  |-> Append(subTexts, Slice(text, 0, s - 1)),
         types  |-> Append(subTypes, "text"),
         starts |-> Append(subStartInds, 0),
         ends   |-> Append(subEndInds, s - 1)]
    ELSE IF ~(Last(subEndInds) = s - 1) THEN
        [texts  |-> Append(subTexts, Slice(text, Last(subEndInds) + 1, s)),
         types  |-> Append(subTypes, "text"),
         starts |-> Append(subStartInds, Last(subEndInds) + 1),
         ends   |-> Append(subEndInds, s - 1)]
    ELSE
        [texts |-> subTexts, types |-> subTypes,
         starts |-> subStartInds, ends |-> subEndInds]

(* lines 368-379: the four lists after the text-before-tag handling *)
GapSegs(ind) ==
    LET s == At(startInds, ind) IN
    IF Len(subEndInds) = 0 /\ s > 0 THEN
        [texts  |-> Append(subTexts, Slice(text, 0, s)),
         types  |-> Append(subTypes, "text"),
         starts |-> Append(subStartInds, 0),
         ends   |-> Append(subEndInds, s - 1)]
    ELSE IF ~(Last(subEndInds) = s - 1) THEN
        [texts  |-> Append(subTexts, Slice(text, Last(subEndInds) + 1, s)),
         types  |-> Append(subTypes, "text"),
         starts |-> Append(subStartInds, Last(subEndInds) + 1),
         ends   |-> Append(subEndInds, s - 1)]
    ELSE
        [texts |-> subTexts, types |-> subTypes,
         starts |-> subStartInds, ends |-> subEndInds]

(* lines 384-387 and 399-402 *)
EndIndAfter(ind) ==
    IF ind + 1 < Len(startInds) THEN At(startInds, ind + 1) ELSE Len(text)

(* lines 396-398: the index the inner while loop stops at, or -1 when it
   runs off the end of foundItem (IndexError) *)
ScanEnd(ind) ==
    LET hits == { j \in (ind + 1)..(Len(foundItem) - 1) :
                    At(foundItem, j) = At(foundItem, ind) /\ At(foundType, j) = "end" }
    IN  IF hits = {} THEN -1 ELSE Min(hits)

(* lines 366-367, 407: a token that is not a whitelisted start tag *)
SkipToken ==
    /\ pc = "loop"
    /\ iii < Len(foundItem)
    /\ ~IsKeptStart(iii)
    /\ iii' = iii + 1
    /\ prevTok' = iii
    /\ UNCHANGED docVars
    /\ UNCHANGED <<text, tags, pc, rawPos, startInds, foundItem, foundType,
                   subTexts, subTypes, subStartInds, subEndInds, error>>

(* lines 366-374: IndexError from subEndInds[-1] *)
RaiseAtGapCheck ==
    /\ pc = "loop"
    /\ iii < Len(foundItem)
    /\ IsKeptStart(iii)
    /\ GapCheckRaises(iii)
    /\ pc' = "raised"
    /\ error' = "IndexError"
    /\ prevTok' = iii
    /\ UNCHANGED docVars
    /\ UNCHANGED <<text, tags, rawPos, startInds, foundItem, foundType, iii,
                   subTexts, subTypes, subStartInds, subEndInds>>

(* lines 366-391, 407: whitelisted self-closing start tag *)
SelfClosingTag ==
    /\ pc = "loop"
    /\ iii < Len(foundItem)
    /\ IsKeptStart(iii)
    /\ ~GapCheckRaises(iii)
    /\ At(foundItem, iii) \in selfClosingTags
    /\ LET g        == GapSegs(iii)
           startInd == At(startInds, iii)
           endInd   == EndIndAfter(iii)
       IN  /\ subTexts' = Append(g.texts, Slice(text, startInd, endInd))
           /\ subTypes' = Append(g.types, "tag")
           /\ subStartInds' = Append(g.starts, startInd)
           /\ subEndInds' = Append(g.ends, endInd - 1)
    /\ iii' = iii + 1
    /\ prevTok' = iii
    /\ UNCHANGED docVars
    /\ UNCHANGED <<text, tags, pc, rawPos, startInds, foundItem, foundType, error>>

(* lines 366-379, 392-407: whitelisted start tag closed by an end tag *)
PairedTag ==
    /\ pc = "loop"
    /\ iii < Len(foundItem)
    /\ IsKeptStart(iii)
    /\ ~GapCheckRaises(iii)
    /\ At(foundItem, iii) \notin selfClosingTags
    /\ ScanEnd(iii) # -1
    /\ LET g        == GapSegs(iii)
           startInd == At(startInds, iii)
           endInd   == EndIndAfter(ScanEnd(iii))
       IN  /\ subTexts' = Append(g.texts, Slice(text, startInd, endInd))
           /\ subTypes' = Append(g.types, "tag")
           /\ subStartInds' = Append(g.starts, startInd)
           /\ subEndInds' = Append(g.ends, endInd - 1)
    /\ iii' = ScanEnd(iii) + 1
    /\ prevTok' = iii
    /\ UNCHANGED docVars
    /\ UNCHANGED <<text, tags, pc, rawPos, startInds, foundItem, foundType, error>>

(* lines 366-379, 392-398: the scan for the end tag indexes past the end of
   foundItem; the text segment appended by lines 368-379 stays appended *)
RaiseAtScan ==
    /\ pc = "loop"
    /\ iii < Len(foundItem)
    /\ IsKeptStart(iii)
    /\ ~GapCheckRaises(iii)
    /\ At(foundItem, iii) \notin selfClosingTags
    /\ ScanEnd(iii) = -1
    /\ LET g == GapSegs(iii)
       IN  /\ subTexts' = g.texts
           /\ subTypes' = g.types
           /\ subStartInds' = g.starts
           /\ subEndInds' = g.ends
    /\ iii' = Len(foundItem)
    /\ pc' = "raised"
    /\ error' = "IndexError"
    /\ prevTok' = iii
    /\ UNCHANGED docVars
    /\ UNCHANGED <<text, tags, rawPos, startInds, foundItem, foundType>>

(* lines 366, 408-415 *)
Finish ==
    /\ pc = "loop"
    /\ ~(iii < Len(foundItem))
    /\ IF Len(subEndInds) > 0 /\ Last(subEndInds) < Len(text) - 1
       THEN /\ subTexts' = Append(subTexts, Slice(text, Last(subEndInds) + 1, Len(text)))
            /\ subTypes' = Append(subTypes, "text")
            /\ subStartInds' = Append(subStartInds, Last(subEndInds) + 1)
            /\ subEndInds' = Append(subEndInds, Len(text) - 1)
       ELSE UNCHANGED <<subTexts, subTypes, subStartInds, subEndInds>>
    /\ pc' = "done"
    /\ UNCHANGED docVars
    /\ UNCHANGED <<text, tags, rawPos, startInds, foundItem, foundType, iii,
                   error, prevTok>>

SplitNext ==
    \/ Feed
    \/ SkipToken
    \/ RaiseAtGapCheck
    \/ SelfClosingTag
    \/ PairedTag
    \/ RaiseAtScan
    \/ Finish

Spec == SplitInit /\ [][SplitNext]_vars

---------------------------------------------------------------------------
(* HtmlDoc and Section *)

DocInit ==
    /\ lists = DefaultLists
    /\ secs = <<>>
    /\ bodyItems = <<>>
    /\ headings = <<>>
    /\ text = <<>>
    /\ tags = {}
    /\ pc = "idle"
    /\ rawPos = <<>>
    /\ startInds = <<>>
    /\ foundItem = <<>>
    /\ foundType = <<>>
    /\ iii = 0
    /\ subTexts = <<>>
    /\ subTypes = <<>>
    /\ subStartInds = <<>>
    /\ subEndInds = <<>>
    /\ error = "none"
    /\ prevTok = -1

(* Section.__init__, lines 128-153: atrRef is the list object bound to atr *)
NewSection(title, level, id, atrRef) ==
    [title |-> title, level |-> level,
     id |-> IF id = None THEN title ELSE id,
     atr |-> atrRef,
     htmlCode |-> <<>>]

(* HtmlDoc.addSection, lines 45-66 *)
addSection(title, id, atrArg) ==
    /\ pc = "idle"
    /\ Len(secs) < MaxSections
    /\ LET id1    == IF id = None THEN title ELSE id
           atrRef == IF atrArg = NoAtr THEN AddSectionDefault ELSE Len(lists) + 1
       IN  /\ lists' = IF atrArg = NoAtr THEN lists ELSE Append(lists, atrArg)
           /\ secs' = Append(secs, NewSection(title, 1, id1, atrRef))
    /\ bodyItems' = Append(bodyItems, Len(secs) + 1)
    /\ headings' = Append(headings, <<>>)
    /\ UNCHANGED splitVars

(* Section.addSubsection, lines 168-182 *)
addSubsection(self, title, id, atrArg) ==
    /\ pc = "idle"
    /\ Len(secs) < MaxSections
    /\ LET atrRef == IF atrArg = NoAtr THEN AddSubsectionDefault ELSE Len(lists) + 1
           sub    == NewSection(title, secs[self].level + 1, id, atrRef)
       IN  /\ lists' = IF atrArg = NoAtr THEN lists ELSE Append(lists, atrArg)
           /\ secs' = [Append(secs, sub) EXCEPT
                          ![self].htmlCode = Append(@, Len(secs) + 1)]
    /\ headings' = Append(headings, <<>>)
    /\ UNCHANGED bodyItems
    /\ UNCHANGED splitVars

(* [x[0] for x in atr] *)
AtrNames(atr) == { atr[n][1] : n \in 1..Len(atr) }

(* lines 194-195: the list object self.atr after the id check *)
WithId(atr, id) ==
    IF "id" \notin AtrNames(atr) THEN Append(atr, <<"id", id>>) ELSE atr

(* Section.generateHtml, lines 184-211, on heap h with headings hd: the
   heap and the headings after rendering the sections of items in order,
   each followed by the items of its own htmlCode *)
RECURSIVE renderItems(_, _, _)
renderItems(items, h, hd) ==
    IF items = <<>> THEN [lists |-> h, headings |-> hd]
    ELSE LET self == Head(items)
             ref  == secs[self].atr
             h1   == [h EXCEPT ![ref] = WithId(@, secs[self].id)]
             hd1  == [hd EXCEPT ![self] = h1[ref]]
             sub  == renderItems(secs[self].htmlCode, h1, hd1)
         IN  renderItems(Tail(items), sub.lists, sub.headings)

(* Section.generateHtml, lines 184-211 *)
SectionGenerateHtml(self) ==
    /\ pc = "idle"
    /\ LET r == renderItems(<<self>>, lists, headings)
       IN  /\ lists' = r.lists
           /\ headings' = r.headings
    /\ UNCHANGED <<secs, bodyItems>>
    /\ UNCHANGED splitVars

(* HtmlDoc.generateHtml, lines 68-100 *)
DocGenerateHtml ==
    /\ pc = "idle"
    /\ LET r == renderItems(bodyItems, lists, headings)
       IN  /\ lists' = r.lists
           /\ headings' = r.headings
    /\ UNCHANGED <<secs, bodyItems>>
    /\ UNCHANGED splitVars

DocNext ==
    \/ \E title \in Titles, id \in Ids, atrArg \in AtrArgs :
           addSection(title, id, atrArg)
    \/ \E self \in 1..Len(secs), title \in Titles, id \in Ids, atrArg \in AtrArgs :
           addSubsection(self, title, id, atrArg)
    \/ \E self \in 1..Len(secs) : SectionGenerateHtml(self)
    \/ DocGenerateHtml

DocSpec == DocInit /\ [][DocNext]_vars

---------------------------------------------------------------------------
(* Vocabulary of the properties *)

RECURSIVE Flatten(_)
Flatten(ss) == IF ss = <<>> THEN <<>> ELSE Head(ss) \o Flatten(Tail(ss))

Fed == pc \in {"loop", "done", "raised"}

Returned == pc = "done"

TokIndices == 0..(Len(foundItem) - 1)

(* tokens that are start tags with a whitelisted name *)
KeptStarts ==
    { n \in TokIndices : At(foundType, n) = "start" /\ At(foundItem, n) \in tags }

(* start offset of the token after token n, or the end of the string *)
NextOffset(n) ==
    IF n + 1 \in TokIndices THEN At(startInds, n + 1) ELSE Len(text)

(* the first end tag after token n that carries n's name, -1 if none *)
FirstEndAfter(n) ==
    LET later == { j \in TokIndices :
                     /\ j > n
                     /\ At(foundType, j) = "end"
                     /\ At(foundItem, j) = At(foundItem, n) }
    IN  IF later = {} THEN -1 ELSE Min(later)

(* the last loop iteration handled a whitelisted start tag *)
HandledKept == Fed /\ prevTok \in KeptStarts

SegIndices == 1..Len(subTexts)

X == <<"x">>
TagB == <<"<", "b", ">">>
EndB == <<"<", "/", "b", ">">>
TagBR == <<"<", "b", "r", ">">>
TagBRX == <<"<", "b", "r", "/", ">">>

---------------------------------------------------------------------------
(* C1: whenever spitTags returns, the returned subTexts concatenated in
   order are exactly the input text. *)
C1_RoundTrip ==
    Returned => Flatten(subTexts) = text

(* C2: when the non-empty input has no start tag with a whitelisted name
   (in particular when the whitelist is empty), spitTags returns exactly one
   segment, the whole input, of kind 'text'. *)
C2_WholeInputIsOneTextSegment ==
    (Returned /\ text # <<>> /\ KeptStarts = {})
        => (subTexts = <<text>> /\ subTypes = <<"text">>)

(* the scan for the end tag of token n is reached: lines 368-379 pass,
   because a segment exists already or text precedes the tag *)
ScanReached(n) == subEndInds # <<>> \/ At(startInds, n) > 0

(* C3: once the loop has handled a whitelisted, non-self-closing start tag
   that no later same-named end tag closes, and has reached the scan for its
   end tag, the call has failed with a MalformedMarkupError, without having
   indexed past the token list. *)
C3_UnmatchedTagIsMalformedMarkup ==
    (/\ HandledKept
     /\ At(foundItem, prevTok) \notin selfClosingTags
     /\ FirstEndAfter(prevTok) = -1
     /\ ScanReached(prevTok))
        => (/\ pc = "raised"
            /\ error = "MalformedMarkupError"
            /\ iii < Len(foundItem))

(* C4: once the loop has handled a whitelisted self-closing start tag at
   offset s, there is a 'tag' segment from s to the start of the next token
   (or the end of the string); and the input "<br>" with br whitelisted
   returns exactly one 'tag' segment "<br>". *)
C4_SelfClosingTagSpan ==
    /\ (HandledKept /\ At(foundItem, prevTok) \in selfClosingTags)
          => (/\ pc # "raised"
              /\ \E n \in SegIndices :
                    /\ subTypes[n] = "tag"
                    /\ subStartInds[n] = At(startInds, prevTok)
                    /\ subTexts[n] =
                          Slice(text, At(startInds, prevTok), NextOffset(prevTok)))
    /\ (text = TagBR /\ BR \in tags /\ pc \in {"done", "raised"})
          => (Returned /\ subTexts = <<TagBR>> /\ subTypes = <<"tag">>)

(* markup elements used to build inputs of two adjacent whitelisted tags *)
Elems == { TagB \o X \o EndB, TagB \o EndB, TagBR }

(* C5: no empty text segment is ever emitted, and an input made of two
   adjacent whitelisted elements returns exactly the two markup segments. *)
C5_AdjacentTagsNoTextBetween ==
    /\ \A n \in SegIndices : subTypes[n] = "text" => subTexts[n] # <<>>
    /\ \A a, b \in Elems :
          (text = a \o b /\ tags = {B, BR} /\ pc \in {"done", "raised"})
              => (Returned /\ subTexts = <<a, b>> /\ subTypes = <<"tag", "tag">>)

(* C6: when spitTags returns and the first whitelisted start tag is at an
   offset s > 0, the first segment is the text [0, s), the second is the
   markup segment starting at s, and the text left after the last markup
   segment, if any, is the one final 'text' segment; "x<b>x</b>x" with b
   whitelisted returns text "x", markup "<b>x</b>", text "x". *)
C6_LeadingAndTrailingText ==
    /\ (Returned /\ KeptStarts # {} /\ At(startInds, Min(KeptStarts)) > 0)
          => LET s == At(startInds, Min(KeptStarts))
                 m == Max({ n \in SegIndices : subTypes[n] = "tag" })
             IN  /\ Len(subTexts) >= 2
                 /\ subTypes[1] = "text"
                 /\ subTexts[1] = Slice(text, 0, s)
                 /\ subTypes[2] = "tag"
                 /\ subStartInds[2] = s
                 /\ IF subEndInds[m] < Len(text) - 1
                    THEN /\ Len(subTexts) = m + 1
                         /\ subTypes[m + 1] = "text"
                         /\ subTexts[m + 1] =
                               Slice(text, subEndInds[m] + 1, Len(text))
                    ELSE Len(subTexts) = m
    /\ (Returned /\ text = X \o TagB \o X \o EndB \o X /\ tags = {B})
          => (/\ subTexts = <<X, TagB \o X \o EndB, X>>
              /\ subTypes = <<"text", "tag", "text">>)

C6_Witness ==
    /\ Returned
    /\ text = X \o TagB \o X \o EndB \o X
    /\ tags = {B}
    /\ Len(subTexts) = 3

(* C7: in every returned segment list the start offsets are strictly
   increasing and each segment starts one past the end of the previous. *)
C7_StartOffsetsStrictlyIncrease ==
    Returned =>
        \A n \in 1..(Len(subStartInds) - 1) :
            /\ subStartInds[n] < subStartInds[n + 1]
            /\ subStartInds[n + 1] = subEndInds[n] + 1

(* C8: right after the loop has handled a whitelisted non-self-closing
   start tag at offset s that has a later same-named end tag, the newest
   segment is the markup from s to the start of the token after the first
   such end tag (or the end of the string) and the loop stands at that
   token, so no token in between was handled. *)
C8_FirstEndTagCloses ==
    (/\ pc \in {"loop", "raised"}
     /\ HandledKept
     /\ At(foundItem, prevTok) \notin selfClosingTags
     /\ FirstEndAfter(prevTok) # -1)
        => LET j == FirstEndAfter(prevTok)
           IN  /\ pc = "loop"
               /\ iii = j + 1
               /\ subTexts # <<>>
               /\ Last(subTypes) = "tag"
               /\ Last(subStartInds) = At(startInds, prevTok)
               /\ Last(subTexts) =
                     Slice(text, At(startInds, prevTok), NextOffset(j))

RECURSIVE SumLen(_, _)
SumLen(ls, n) == IF n = 0 THEN 0 ELSE SumLen(ls, n - 1) + Len(ls[n])

(* C9: every converted offset is the summed length of the preceding lines,
   plus one per preceding newline, plus the column; and the token the
   parser reported starts at that offset of text. *)
C9_OffsetOfLineColumn ==
    Fed =>
        \A n \in 1..Len(rawPos) :
            /\ startInds[n] =
                  SumLen(split(text), rawPos[n][1] - 1)
                      + (rawPos[n][1] - 1) + rawPos[n][2]
            /\ startInds[n] < Len(text)
            /\ IF foundType[n] = "data"
               THEN Slice(text, startInds[n], startInds[n] + Len(foundItem[n]))
                        = foundItem[n]
               ELSE text[startInds[n] + 1] = "<"

C9_Witness ==
    /\ Fed
    /\ \E n \in 1..Len(rawPos) :
          /\ rawPos[n][1] >= 3
          /\ rawPos[n][2] > 0
          /\ foundType[n] = "start"
          /\ Len(split(text)[1]) > 0

(* sections created without an explicit atr *)
DefaultAtrSections ==
    { n \in 1..Len(secs) :
        secs[n].atr \in {AddSectionDefault, AddSubsectionDefault} }

(* C10: every rendered section that was created without an explicit atr
   carries its own id in its heading, and no other attribute. *)
C10_OwnIdRendered ==
    \A n \in DefaultAtrSections :
        headings[n] # <<>> => headings[n] = << <<"id", secs[n].id>> >>

====
